---- MODULE Spec2Model ----
(***************************************************************************)
(* Model of joban_yahoo.py: the scraper of four Joban-line status pages,   *)
(* the grouping/severity aggregator and the Bark notification.             *)
(*                                                                         *)
(* Python strings are sequences of characters.  TLA+ string literals are   *)
(* ASCII, so every non-ASCII character is written as a one-character code   *)
(* (kanji capitalised: "Hei" = 平, hiragana lower case: "no" = の, katakana *)
(* upper case: "DA" = ダ, punctuation "j." = 。); each code is ONE          *)
(* character, so Len, slicing and substring search count as in Python.     *)
(* Optional values (None or a value) are sequences of length 0 or 1.       *)
(***************************************************************************)
EXTENDS Integers, Sequences, FiniteSets

VARIABLES
  pc,             \* position of main(): collect, build, icon, send, done, failed
  results,        \* collect_all_lines: the list of records built so far
  raised,         \* per processed line: the exception fetch raised, or None
  net,            \* network requests issued so far, in order
  bark_key,       \* os.environ.get("BARK_KEY")
  groups,         \* build_grouped_message: groups, in dict insertion order
  lines,          \* build_grouped_message: the rendered blocks
  has_abnormal,
  has_severe,
  body,
  icon,
  error,          \* exception that left main(), or None
  fpc,            \* position of one extraction: start, parsed, done
  strings,        \* fetch_page_info: list(soup.stripped_strings)
  page,           \* fetch_page_info: its locals and result
  extracted       \* extract_reason_and_delay: its result

vars == <<pc, results, raised, net, bark_key, groups, lines, has_abnormal,
          has_severe, body, icon, error, fpc, strings, page, extracted>>

mainvars == <<pc, results, raised, net, bark_key, groups, lines, has_abnormal,
              has_severe, body, icon, error>>

fetchvars == <<fpc, strings, page, extracted>>

----------------------------------------------------------------------------
(* String literals of the source *)

\* 常磐線(快速)[品川～取手]
NAME_1 == <<"Jou", "Ban", "Sen", "(", "Kai", "Soku", ")", "[", "Shina", "Kawa", "j~", "Shu", "Te", "]">>

\* 常磐線(各停)
NAME_2 == <<"Jou", "Ban", "Sen", "(", "Kaku", "Tei", ")">>

\* 常磐線[品川～水戸]
NAME_3 == <<"Jou", "Ban", "Sen", "[", "Shina", "Kawa", "j~", "Mizu", "To", "]">>

\* 常磐線[水戸～いわき]
NAME_4 == <<"Jou", "Ban", "Sen", "[", "Mizu", "To", "j~", "i", "wa", "ki", "]">>

\* 更新時刻不明
UPDATED_UNKNOWN == <<"Sara", "Shin2", "Toki", "Koku", "Fu", "Mei">>

\* 状態不明
STATUS_UNKNOWN == <<"Joutai", "Tai", "Fu", "Mei">>

\* 更新
KOUSHIN == <<"Sara", "Shin2">>

\* 掲載
KEISAI == <<"Kei2", "Sai2">>

\* 平常運転
HEIJOU_UNTEN == <<"Hei", "Jou", "Un", "Ten2">>

\* 遅延
CHIEN == <<"Oku", "En">>

\* 運転見合わせ
UNTEN_MIAWASE == <<"Un", "Ten2", "Mi", "Ai", "wa", "se">>

\* 運休
UNKYUU == <<"Un", "Kyuu">>

\* ダイヤ乱れ
DAIYA_MIDARE == <<"DA", "I", "YA", "Midare", "re">>

\* その他
SONOTA == <<"so", "no", "Ta">>

\* 脱線
DASSEN == <<"Datsu", "Sen">>

\* 事故
JIKO == <<"Ji", "Ko">>

\* 見合わせ
MIAWASE == <<"Mi", "Ai", "wa", "se">>

\* 故障
KOSHOU == <<"Ko", "Shou">>

\* 影響
EIKYOU == <<"Ei", "Hibiki">>

\* 取得失敗
FETCH_FAILED == <<"Shu", "Toku", "Shitsu", "Hai">>

\* 情報取得エラー
FETCH_ERROR == <<"Jou2", "Hou", "Shu", "Toku", "E", "RA", "--">>

\* 事故・遅延に関する情報はありません
NO_INFO_PHRASE == <<"Ji", "Ko", "j*", "Oku", "En", "ni", "Kan", "su", "ru", "Jou2", "Hou", "ha", "a", "ri", "ma", "se", "n">>

\* 程度
TEIDO == <<"Tei2", "Do">>

\* 前後
ZENGO == <<"Mae", "Go">>

\* の
NO == <<"no">>

\* 遅れ
OKURE == <<"Oku", "re">>

\* …
ELLIPSIS == <<"...">>

\*  / 
NAME_SEP == <<" ", "/", " ">>

\* 状態：
LBL_STATUS == <<"Joutai", "Tai", "j:">>

\* 更新：
LBL_UPDATED == <<"Sara", "Shin2", "j:">>

\* 原因：
LBL_REASON == <<"Gen", "In", "j:">>

\* 遅延：最大およそ
LBL_DELAY == <<"Oku", "En", "j:", "Sai", "Oo", "o", "yo", "so">>

\* 常磐線運行情報
TITLE == <<"Jou", "Ban", "Sen", "Un", "Kou2", "Jou2", "Hou">>

REASON_KEYWORDS ==
  << <<"Jin", "Mi2", "Ji", "Ko">>,
     <<"Datsu", "Sen", "Ji", "Ko">>,
     <<"Datsu", "Sen">>,
     <<"Sha", "Ryou", "Ko", "Shou">>,
     <<"Sha", "Ryou", "Ten", "Ken">>,
     <<"Shin", "Gou", "TO", "RA", "BU", "RU">>,
     <<"Shin", "Gou", "Kan", "Kei", "no", "Ko", "Shou">>,
     <<"Fumi", "Kiri", "Nai", "de", "no", "Ji", "Ko">>,
     <<"Fumi", "Kiri", "de", "no", "Ji", "Ko">>,
     <<"Sen", "Ro", "Nai", "Tachi", "chi", "Nyuu", "ri">>,
     <<"Sen", "Ro", "Nai", "he", "no", "Tachi", "chi", "Nyuu", "ri">>,
     <<"Kyou", "Kaze">>,
     <<"Oo", "Ame">>,
     <<"Oo", "Yuki">>,
     <<"Raku", "Kaminari">>,
     <<"Tei", "Den">>,
     <<"An", "Zen", "Kaku2", "Nin">>,
     <<"PO", "I", "N", "TO", "Ko", "Shou">>,
     <<"Kou", "Ji">>,
     <<"Ei", "Hibiki">>,
     <<"Dai", "Kou2", "Yu", "Sou">>,
     <<"Mi", "Ai", "wa", "se">> >>

----------------------------------------------------------------------------
(* Text fragments of the status pages used as inputs *)

\* 1月2日 3時4分更新
T_UPD == <<"1", "Gatsu", "2", "Nichi", " ", "3", "Toki", "4", "Fun", "Sara", "Shin2">>

\* 1月2日 3時4分
T_DATE == <<"1", "Gatsu", "2", "Nichi", " ", "3", "Toki", "4", "Fun">>

\* 1月2日 3時4分掲載更新
T_KEISAI == <<"1", "Gatsu", "2", "Nichi", " ", "3", "Toki", "4", "Fun", "Kei2", "Sai2", "Sara", "Shin2">>

\* ほぼ平常運転
T_NEAR_NORMAL == <<"ho", "bo", "Hei", "Jou", "Un", "Ten2">>

\* 列車遅延
T_TRAIN_DELAY == <<"Retsu", "Sha", "Oku", "En">>

\* 一部運休
T_PARTIAL_CANCEL == <<"Ichi", "Bu", "Un", "Kyuu">>

\* 人身事故の影響で遅延しています
T_ACCIDENT == <<"Jin", "Mi2", "Ji", "Ko", "no", "Ei", "Hibiki", "de", "Oku", "En", "shi", "te", "i", "ma", "su">>

\* 現在、事故・遅延に関する情報はありません。
T_NO_INFO == <<"Genzai", "Zai", "j,", "Ji", "Ko", "j*", "Oku", "En", "ni", "Kan", "su", "ru", "Jou2", "Hou", "ha", "a", "ri", "ma", "se", "n", "j.">>

\* 路線情報
T_ROUTE == <<"Ro", "Sen", "Jou2", "Hou">>

\* 5分遅れ
T_5MIN == <<"5", "Fun", "Oku", "re">>

\* 9分遅れ
T_9MIN == <<"9", "Fun", "Oku", "re">>

\* ただいま遅延しています。
T_DELAY_MSG == <<"ta", "da", "i", "ma", "Oku", "En", "shi", "te", "i", "ma", "su", "j.">>
----------------------------------------------------------------------------
(* Python built-ins on strings and lists *)

None == <<>>

Some(x) == <<x>>

Min(S) == CHOOSE x \in S : \A y \in S : x <= y

Max(S) == CHOOSE x \in S : \A y \in S : x >= y

\* s[a:b] for 0 <= a, 0 <= b (0-based, end exclusive, clipped to the length)
Slice(s, a, b) ==
  LET hi == IF b < Len(s) THEN b ELSE Len(s)
  IN  IF a >= hi THEN <<>> ELSE SubSeq(s, a + 1, hi)

\* s[p:p+len(sub)] == sub, p 0-based
MatchAt(sub, s, p) ==
  /\ p >= 0
  /\ p + Len(sub) <= Len(s)
  /\ \A k \in 1..Len(sub) : s[p + k] = sub[k]

\* sub in s
Contains(sub, s) == \E p \in 0..(Len(s) - Len(sub)) : MatchAt(sub, s, p)

\* s.index(sub), 0-based; used only where sub in s
Find(sub, s) == Min({p \in 0..(Len(s) - Len(sub)) : MatchAt(sub, s, p)})

\* s.endswith(suffix)
EndsWith(s, suffix) == MatchAt(suffix, s, Len(s) - Len(suffix))

IsSpace(c) == c \in {" ", "\n"}

IsDigit(c) == c \in {"0", "1", "2", "3", "4", "5", "6", "7", "8", "9"}

\* s.strip()
Strip(s) ==
  LET keep == {k \in 1..Len(s) : ~IsSpace(s[k])}
  IN  IF keep = {} THEN <<>> ELSE SubSeq(s, Min(keep), Max(keep))

RECURSIVE Join(_, _)
\* sep.join(parts)
Join(sep, parts) ==
  IF parts = <<>> THEN <<>>
  ELSE IF Len(parts) = 1 THEN parts[1]
  ELSE parts[1] \o sep \o Join(sep, Tail(parts))

\* 0-based index of the first TRUE of a list of booleans, or None: the
\* index at which a for loop with a test breaks
FirstTrue(flags) ==
  LET hit == {k \in 1..Len(flags) : flags[k]}
  IN  IF hit = {} THEN None ELSE Some(Min(hit) - 1)

\* int(c) of one decimal digit
DigitVal(c) ==
  CASE c = "0" -> 0 [] c = "1" -> 1 [] c = "2" -> 2 [] c = "3" -> 3
    [] c = "4" -> 4 [] c = "5" -> 5 [] c = "6" -> 6 [] c = "7" -> 7
    [] c = "8" -> 8 [] c = "9" -> 9

RECURSIVE ParseInt(_)
\* int(digits)
ParseInt(digits) ==
  IF digits = <<>> THEN 0
  ELSE 10 * ParseInt(SubSeq(digits, 1, Len(digits) - 1))
       + DigitVal(digits[Len(digits)])

DigitChar(d) == <<"0", "1", "2", "3", "4", "5", "6", "7", "8", "9">>[d + 1]

RECURSIVE FormatInt(_)
\* str(n) inside the f-string, n >= 0
FormatInt(n) ==
  IF n < 10 THEN <<DigitChar(n)>>
  ELSE FormatInt(n \div 10) \o <<DigitChar(n % 10)>>

\* s[a:b] lies inside s and holds digits only (0-based, end exclusive)
AllDigits(s, a, b) == a >= 0 /\ b <= Len(s) /\ \A k \in (a + 1)..b : IsDigit(s[k])

\* s[a:b] lies inside s and holds white space only
AllSpaces(s, a, b) == a >= 0 /\ b <= Len(s) /\ \A k \in (a + 1)..b : IsSpace(s[k])

\* s[p] == c, 0-based
CharAt(s, p, c) == p >= 0 /\ p < Len(s) /\ s[p + 1] = c

----------------------------------------------------------------------------
(* fetch_page_info *)

\* t.endswith("更新") and "掲載" not in t
IsUpdateLine(s) ==
  LET t == Strip(s) IN EndsWith(t, KOUSHIN) /\ ~Contains(KEISAI, t)

\* dt_pattern matched at position p: \d{1,2}月\d{1,2}日\s+\d{1,2}時\d{1,2}分
DtMatchAt(t, p) ==
  \E d1 \in 1..2, d2 \in 1..2, w \in 1..Len(t), d3 \in 1..2, d4 \in 1..2 :
    LET pGatsu == p + d1
        pNichi == pGatsu + 1 + d2
        pToki  == pNichi + 1 + w + d3
        pFun   == pToki + 1 + d4
    IN  /\ AllDigits(t, p, pGatsu)
        /\ CharAt(t, pGatsu, "Gatsu")
        /\ AllDigits(t, pGatsu + 1, pNichi)
        /\ CharAt(t, pNichi, "Nichi")
        /\ AllSpaces(t, pNichi + 1, pNichi + 1 + w)
        /\ AllDigits(t, pNichi + 1 + w, pToki)
        /\ CharAt(t, pToki, "Toki")
        /\ AllDigits(t, pToki + 1, pFun)
        /\ CharAt(t, pFun, "Fun")

\* dt_pattern.search(t)
DtSearch(s) == LET t == Strip(s) IN \E p \in 0..Len(t) : DtMatchAt(t, p)

status_words == <<HEIJOU_UNTEN, CHIEN, UNTEN_MIAWASE, UNKYUU, DAIYA_MIDARE, SONOTA>>

\* IsStatusText without the length limit
IsStatusText_NoLength(s) ==
  LET text == Strip(s)
  IN  \E k \in 1..Len(status_words) :
        status_words[k] = text \/ Contains(status_words[k], text)

\* IsStatusText without the vocabulary test
IsStatusText_AnyShort(s) == Len(Strip(s)) <= 10

\* len(text) <= 10 and any(w == text or w in text for w in status_words)
IsStatusText(s) ==
  LET text == Strip(s)
  IN  /\ Len(text) <= 10
      /\ \E k \in 1..Len(status_words) :
           status_words[k] = text \/ Contains(status_words[k], text)

\* the parsing part of fetch_page_info, from the list of stripped strings on;
\* the statements that follow its return never run and are left out
fetch_page_info(strs) ==
  LET idx1 == FirstTrue([k \in 1..Len(strs) |-> IsUpdateLine(strs[k])])
      idx2 == FirstTrue([k \in 1..Len(strs) |-> DtSearch(strs[k])])
      updated_idx == IF idx1 # None THEN idx1 ELSE idx2
      updated == IF idx1 # None THEN Strip(strs[idx1[1] + 1])
                 ELSE IF idx2 # None THEN Strip(strs[idx2[1] + 1]) \o KOUSHIN
                 ELSE UPDATED_UNKNOWN
      window == IF updated_idx # None
                THEN Slice(strs, updated_idx[1] + 1, updated_idx[1] + 6)
                ELSE <<>>
      status_candidates == window \o strs
      chosen == FirstTrue([k \in 1..Len(status_candidates) |->
                              IsStatusText(status_candidates[k])])
      status == IF chosen # None THEN Strip(status_candidates[chosen[1] + 1])
                ELSE STATUS_UNKNOWN
      \* where in strs the chosen candidate stands (not a variable of the code)
      chosen_at == IF chosen = None THEN None
                   ELSE IF chosen[1] < Len(window)
                        THEN Some(updated_idx[1] + 1 + chosen[1])
                        ELSE Some(chosen[1] - Len(window))
      found == FirstTrue([k \in 1..Len(strs) |-> strs[k] = status])
      detail_start ==
        IF status # STATUS_UNKNOWN
        THEN IF found # None THEN found[1] + 1
             ELSE IF updated_idx # None THEN updated_idx[1] + 1 ELSE 0
        ELSE IF updated_idx # None THEN updated_idx[1] + 1 ELSE 0
      detail_text == Join(<<" ">>, Slice(strs, detail_start, detail_start + 30))
  IN  [updated |-> updated, status |-> status, detail_text |-> detail_text,
       updated_idx |-> updated_idx, chosen_at |-> chosen_at,
       detail_start |-> detail_start]

----------------------------------------------------------------------------
(* extract_reason_and_delay *)

\* (\d+)\s*分(?:程度|前後)?(?:の)?遅れ matched at position p with k digits
DelayMatchAt(t, p, k) ==
  /\ k >= 1
  /\ AllDigits(t, p, p + k)
  /\ \E w \in 0..Len(t), o1 \in {0, 2}, o2 \in {0, 1} :
       LET pFun == p + k + w
       IN  /\ AllSpaces(t, p + k, pFun)
           /\ CharAt(t, pFun, "Fun")
           /\ o1 = 2 => MatchAt(TEIDO, t, pFun + 1) \/ MatchAt(ZENGO, t, pFun + 1)
           /\ o2 = 1 => MatchAt(NO, t, pFun + 1 + o1)
           /\ MatchAt(OKURE, t, pFun + 1 + o1 + o2)

\* re.search of the delay pattern and int(m.group(1)): leftmost match,
\* greedy digits
DelayMinutes(t) ==
  LET starts == {p \in 0..Len(t) : \E k \in 1..Len(t) : DelayMatchAt(t, p, k)}
  IN  IF starts = {} THEN None
      ELSE LET p0 == Min(starts)
               k0 == Max({k \in 1..Len(t) : DelayMatchAt(t, p0, k)})
           IN  Some(ParseInt(Slice(t, p0, p0 + k0)))

\* ["事故", "遅延", "見合わせ", "運休", "故障", "脱線", "影響"]
incident_words == <<JIKO, CHIEN, MIAWASE, UNKYUU, KOSHOU, DASSEN, EIKYOU>>

\* [。！!？?]
IsSentenceEnd(c) == c \in {"j.", "j!", "!", "j?", "?"}

\* the reason text once an incident word is known to be in detail_text
ReasonText(detail_text) ==
  LET kwi == FirstTrue([k \in 1..Len(REASON_KEYWORDS) |->
                           Contains(REASON_KEYWORDS[k], detail_text)])
  IN  IF kwi # None
      THEN LET kw == REASON_KEYWORDS[kwi[1] + 1]
               idx == Find(kw, detail_text)
               start == IF idx - 20 > 0 THEN idx - 20 ELSE 0
           IN  Strip(Slice(detail_text, start, idx + Len(kw) + 40))
      ELSE LET ends == {p \in 0..(Len(detail_text) - 1) :
                          IsSentenceEnd(detail_text[p + 1])}
           IN  IF ends # {} THEN Slice(detail_text, 0, Min(ends) + 1)
               ELSE Slice(detail_text, 0, 60)
                    \o (IF Len(detail_text) > 60 THEN ELLIPSIS ELSE <<>>)

extract_reason_and_delay(detail_text, status) ==
  IF Contains(HEIJOU_UNTEN, status)
  THEN [reason |-> None, delay_minutes |-> None]
  ELSE IF Contains(NO_INFO_PHRASE, detail_text)
  THEN [reason |-> None, delay_minutes |-> None]
  ELSE IF ~\E k \in 1..Len(incident_words) :
             Contains(incident_words[k], detail_text)
  THEN [reason |-> None, delay_minutes |-> DelayMinutes(detail_text)]
  ELSE [reason |-> Some(ReasonText(detail_text)),
        delay_minutes |-> DelayMinutes(detail_text)]

----------------------------------------------------------------------------
(* Configuration, exceptions and inputs of a run *)

LINES ==
  << [name |-> NAME_1, url |-> "https://transit.yahoo.co.jp/diainfo/57/0"],
     [name |-> NAME_2, url |-> "https://transit.yahoo.co.jp/diainfo/58/0"],
     [name |-> NAME_3, url |-> "https://transit.yahoo.co.jp/diainfo/59/59"],
     [name |-> NAME_4, url |-> "https://transit.yahoo.co.jp/diainfo/59/60"] >>

ICON_OK == "https://raw.githubusercontent.com/twitter/twemoji/master/assets/72x72/2705.png"

ICON_WARN == "https://raw.githubusercontent.com/twitter/twemoji/master/assets/72x72/26a0.png"

ICON_ERROR == "https://raw.githubusercontent.com/twitter/twemoji/master/assets/72x72/274c.png"

\* exceptions requests.get / raise_for_status can raise
Errors ==
  { [type |-> "ReadTimeout", args |-> << <<"t", "i", "m", "e", "d", " ", "o", "u", "t">> >>],
    [type |-> "HTTPError", args |-> << <<"5", "0", "3">> >>] }

\* str(e) of an exception: its single argument, or "" without arguments
Str(e) == IF e.args = <<>> THEN <<>> ELSE e.args[1]

\* the RuntimeError send_bark raises without BARK_KEY
MissingKeyError == [type |-> "RuntimeError", args |-> << <<"B", "A", "R", "K", "_", "K", "E", "Y">> >>]

\* values of the environment variable BARK_KEY: unset, empty, set
BarkKeys == {None, Some(<<>>), Some(<<"k", "e", "y">>)}

\* page contents (lists of stripped strings) the four line pages can show
Pages ==
  { <<T_UPD, HEIJOU_UNTEN, T_NO_INFO>>,
    <<T_UPD, UNTEN_MIAWASE, T_ACCIDENT>>,
    <<T_UPD, CHIEN, T_5MIN>>,
    <<T_UPD, CHIEN, T_9MIN>>,
    <<T_UPD, T_NEAR_NORMAL>>,
    <<T_UPD, T_PARTIAL_CANCEL, T_ACCIDENT>>,
    <<T_ROUTE>> }

----------------------------------------------------------------------------
(* collect_all_lines: one iteration of the loop per step *)

\* the record of a line from the results p of fetch_page_info and x of
\* extract_reason_and_delay
LineRecord(name, p, x) ==
  [name |-> name, updated |-> p.updated, status |-> p.status,
   reason |-> x.reason, delay_minutes |-> x.delay_minutes]

\* ErrorRecord that loses the error text
ErrorRecord_NoReason(name, e) ==
  [name |-> name, updated |-> FETCH_FAILED, status |-> FETCH_ERROR,
   reason |-> None, delay_minutes |-> None]

ErrorRecord(name, e) ==
  [name |-> name, updated |-> FETCH_FAILED, status |-> FETCH_ERROR,
   reason |-> Some(Str(e)), delay_minutes |-> None]

FetchRequest(url) == [host |-> "transit.yahoo.co.jp", url |-> url, payload |-> <<>>]

\* the loop variable after one more record: the loop ends after the last line
AfterCollect(res) == IF Len(res) = Len(LINES) THEN "build" ELSE "collect"

\* the page was fetched and parsed
CollectOk(strs) ==
  /\ pc = "collect"
  /\ \E line \in {LINES[Len(results) + 1]}, p \in {fetch_page_info(strs)} :
       \E x \in {extract_reason_and_delay(p.detail_text, p.status)} :
         /\ results' = Append(results, LineRecord(line.name, p, x))
         /\ raised' = Append(raised, None)
         /\ net' = Append(net, FetchRequest(line.url))
  /\ pc' = AfterCollect(results')
  /\ UNCHANGED <<bark_key, groups, lines, has_abnormal, has_severe, body, icon,
                 error, fetchvars>>

\* requests.get or raise_for_status raised e
CollectFail(e) ==
  /\ pc = "collect"
  /\ LET line == LINES[Len(results) + 1]
     IN  /\ results' = Append(results, ErrorRecord(line.name, e))
         /\ raised' = Append(raised, Some(e))
         /\ net' = Append(net, FetchRequest(line.url))
  /\ pc' = AfterCollect(results')
  /\ UNCHANGED <<bark_key, groups, lines, has_abnormal, has_severe, body, icon,
                 error, fetchvars>>

----------------------------------------------------------------------------
(* build_grouped_message *)

\* x or "" for an optional string
OrEmpty(x) == IF x = None THEN <<>> ELSE x[1]

\* x or 0 for an optional integer
OrZero(x) == IF x = None THEN 0 ELSE x[1]

\* GroupKey without the delay
GroupKey_NoDelay(r) == <<r.status, OrEmpty(r.reason), 0>>

\* (r["status"] or "", r["reason"] or "", r["delay_minutes"] or 0)
GroupKey(r) == <<r.status, OrEmpty(r.reason), OrZero(r.delay_minutes)>>

\* groups.setdefault(key, []).append(r)
AddToGroups(gs, r) ==
  LET hit == {k \in 1..Len(gs) : gs[k].key = GroupKey(r)}
  IN  IF hit = {} THEN Append(gs, [key |-> GroupKey(r), items |-> <<r>>])
      ELSE LET k == CHOOSE k \in hit : TRUE
           IN  [gs EXCEPT ![k].items = Append(@, r)]

RECURSIVE GroupsOf(_)
\* the dict after the first loop, as the list of its items in insertion order
GroupsOf(rs) ==
  IF rs = <<>> THEN <<>>
  ELSE AddToGroups(GroupsOf(SubSeq(rs, 1, Len(rs) - 1)), rs[Len(rs)])

\* one group's block: "\n".join(block_lines)
RenderBlock(g) ==
  LET status == g.key[1]
      reason == g.key[2]
      delay_minutes == g.key[3]
      names == Join(NAME_SEP, [k \in 1..Len(g.items) |-> g.items[k].name])
      updated == g.items[1].updated
      head == << <<>>, LBL_STATUS \o status, LBL_UPDATED \o updated >>
      reason_line == IF reason # <<>> /\ ~Contains(FETCH_ERROR, status)
                     THEN << LBL_REASON \o reason >> ELSE <<>>
      delay_line == IF delay_minutes # 0 /\ ~Contains(FETCH_ERROR, status)
                    THEN << LBL_DELAY \o FormatInt(delay_minutes) \o <<"Fun">> >>
                    ELSE <<>>
  IN  Join(<<"\n">>, head \o reason_line \o delay_line)

\* IsAbnormal that counts a retrieval error as abnormal
IsAbnormal_ErrorCounts(status) == ~Contains(HEIJOU_UNTEN, status)

\* "平常運転" not in status and "情報取得エラー" not in status
IsAbnormal(status) ==
  ~Contains(HEIJOU_UNTEN, status) /\ ~Contains(FETCH_ERROR, status)

\* IsSevere without "運休"
IsSevere_NoCancel(status) ==
  \E x \in {UNTEN_MIAWASE, DASSEN} : Contains(x, status)

\* any(x in status for x in ["運転見合わせ", "運休", "脱線"])
IsSevere(status) ==
  \E x \in {UNTEN_MIAWASE, UNKYUU, DASSEN} : Contains(x, status)

BuildGroupedMessage ==
  /\ pc = "build"
  /\ groups' = GroupsOf(results)
  /\ lines' = [k \in 1..Len(groups') |-> RenderBlock(groups'[k])]
  /\ has_abnormal' = \E k \in 1..Len(groups') : IsAbnormal(groups'[k].key[1])
  /\ has_severe' = \E k \in 1..Len(groups') : IsSevere(groups'[k].key[1])
  /\ body' = Join(<<"\n", "\n">>, lines')
  /\ pc' = "icon"
  /\ UNCHANGED <<results, raised, net, bark_key, icon, error, fetchvars>>

----------------------------------------------------------------------------
(* choose_icon, send_bark, main *)

\* choose_icon with the two abnormal icons swapped
choose_icon_Swapped(abnormal, severe) ==
  IF ~abnormal THEN ICON_OK
  ELSE IF severe THEN ICON_WARN
  ELSE ICON_ERROR

choose_icon(abnormal, severe) ==
  IF ~abnormal THEN ICON_OK
  ELSE IF severe THEN ICON_ERROR
  ELSE ICON_WARN

ChooseIcon ==
  /\ pc = "icon"
  /\ icon' = Some(choose_icon(has_abnormal, has_severe))
  /\ pc' = "send"
  /\ UNCHANGED <<results, raised, net, bark_key, groups, lines, has_abnormal,
                 has_severe, body, error, fetchvars>>

\* not bark_key
NoKey(k) == IF k = None THEN TRUE ELSE k[1] = <<>>

BarkRequest(key, title, text, icon_url) ==
  [host |-> "api.day.app", url |-> "https://api.day.app/",
   payload |-> <<key, title, text, icon_url>>]

\* send_bark without a key: RuntimeError leaves main
SendBarkNoKey ==
  /\ pc = "send"
  /\ NoKey(bark_key)
  /\ error' = Some(MissingKeyError)
  /\ pc' = "failed"
  /\ UNCHANGED <<results, raised, net, bark_key, groups, lines, has_abnormal,
                 has_severe, body, icon, fetchvars>>

\* send_bark with a key: the request is issued and answered
SendBarkOk ==
  /\ pc = "send"
  /\ ~NoKey(bark_key)
  /\ net' = Append(net, BarkRequest(bark_key[1], TITLE, body, icon[1]))
  /\ pc' = "done"
  /\ UNCHANGED <<results, raised, bark_key, groups, lines, has_abnormal,
                 has_severe, body, icon, error, fetchvars>>

\* send_bark with a key: the request is issued and requests.get raises e
SendBarkFail(e) ==
  /\ pc = "send"
  /\ ~NoKey(bark_key)
  /\ net' = Append(net, BarkRequest(bark_key[1], TITLE, body, icon[1]))
  /\ error' = Some(e)
  /\ pc' = "failed"
  /\ UNCHANGED <<results, raised, bark_key, groups, lines, has_abnormal,
                 has_severe, body, icon, fetchvars>>

\* locals of fetch_page_info before its loops
PageStart ==
  [updated |-> UPDATED_UNKNOWN, status |-> STATUS_UNKNOWN, detail_text |-> <<>>,
   updated_idx |-> None, chosen_at |-> None, detail_start |-> 0]

ExtractStart == [reason |-> None, delay_minutes |-> None]

Init ==
  /\ pc = "collect"
  /\ results = <<>>
  /\ raised = <<>>
  /\ net = <<>>
  /\ bark_key \in BarkKeys
  /\ groups = <<>>
  /\ lines = <<>>
  /\ has_abnormal = FALSE
  /\ has_severe = FALSE
  /\ body = <<>>
  /\ icon = None
  /\ error = None
  /\ fpc = "idle"
  /\ strings = <<>>
  /\ page = PageStart
  /\ extracted = ExtractStart

Next ==
  \/ \E strs \in Pages : CollectOk(strs)
  \/ \E e \in Errors : CollectFail(e)
  \/ BuildGroupedMessage
  \/ ChooseIcon
  \/ SendBarkNoKey
  \/ SendBarkOk
  \/ \E e \in Errors : SendBarkFail(e)

Spec == Init /\ [][Next]_vars

----------------------------------------------------------------------------
(* One extraction on its own: fetch_page_info, then                        *)
(* extract_reason_and_delay, on every short list of page fragments         *)

MaxTokens == 3

Fragments ==
  {T_UPD, T_DATE, T_KEISAI, HEIJOU_UNTEN, CHIEN, T_TRAIN_DELAY, T_ACCIDENT,
   T_NO_INFO, T_ROUTE, T_5MIN, T_DELAY_MSG}

\* a page whose status lies after the five fragments that follow the update time
LongPages ==
  { <<HEIJOU_UNTEN, T_UPD, T_ROUTE, T_ROUTE, T_ROUTE, T_ROUTE, T_ROUTE, CHIEN, T_ACCIDENT>> }

Streams ==
  UNION {[1..n -> Fragments] : n \in 0..MaxTokens} \cup LongPages

FetchPageInfo ==
  /\ fpc = "start"
  /\ page' = fetch_page_info(strings)
  /\ fpc' = "parsed"
  /\ UNCHANGED <<mainvars, strings, extracted>>

ExtractReasonAndDelay ==
  /\ fpc = "parsed"
  /\ extracted' = extract_reason_and_delay(page.detail_text, page.status)
  /\ fpc' = "done"
  /\ UNCHANGED <<mainvars, strings, page>>

InitExtract ==
  /\ pc = "idle"
  /\ results = <<>>
  /\ raised = <<>>
  /\ net = <<>>
  /\ bark_key = None
  /\ groups = <<>>
  /\ lines = <<>>
  /\ has_abnormal = FALSE
  /\ has_severe = FALSE
  /\ body = <<>>
  /\ icon = None
  /\ error = None
  /\ fpc = "start"
  /\ strings \in Streams
  /\ page = PageStart
  /\ extracted = ExtractStart

NextExtract ==
  \/ FetchPageInfo
  \/ ExtractReasonAndDelay

SpecExtract == InitExtract /\ [][NextExtract]_vars

----------------------------------------------------------------------------
(* Properties *)

\* build_grouped_message has returned
Built == pc \in {"icon", "send", "done", "failed"}

\* choose_icon has returned
IconChosen == pc \in {"send", "done", "failed"}

RECURSIVE Split(_, _)
\* s.split(sep)
Split(s, sep) ==
  IF ~Contains(sep, s) THEN <<s>>
  ELSE LET p == Find(sep, s)
       IN  <<Slice(s, 0, p)>> \o Split(Slice(s, p + Len(sep), Len(s)), sep)

\* the lines of a rendered block
BlockLines(block) == Split(block, <<"\n">>)

\* the (status, reason) key of the data model, absent reason as ""
PairKey(r) == <<r.status, IF r.reason = None THEN <<>> ELSE r.reason[1]>>

\* the (status, reason, delay_minutes) key, absent reason as "", absent delay as 0
TripleKey(r) ==
  <<r.status, IF r.reason = None THEN <<>> ELSE r.reason[1],
    IF r.delay_minutes = None THEN 0 ELSE r.delay_minutes[1]>>

\* the keys of the records, record by record
PairKeys == [k \in 1..Len(results) |-> PairKey(results[k])]

TripleKeys == [k \in 1..Len(results) |-> TripleKey(results[k])]

\* positions of the records whose key is not the key of an earlier record
FirstSeen(keys) ==
  {j \in 1..Len(keys) : \A i \in 1..(j - 1) : keys[i] # keys[j]}

\* the rank of position j among the first occurrences of keys
Rank(j, keys) == Cardinality({i \in FirstSeen(keys) : i <= j})

\* the names of the records that have the key of record j, in input order
NamesWithKeyOf(j, keys) ==
  LET members == SelectSeq([k \in 1..Len(keys) |-> k], LAMBDA k : keys[k] = keys[j])
  IN  [n \in 1..Len(members) |-> results[members[n]].name]

\* there is one block per key, and the block of the key first seen at
\* position j stands at the rank of j and shows the status of record j
BlocksFollow(keys) ==
  /\ Len(lines) = Cardinality({keys[j] : j \in 1..Len(keys)})
  /\ \A j \in FirstSeen(keys) :
       LET b == BlockLines(lines[Rank(j, keys)])
       IN  Len(b) >= 2 /\ b[2] = LBL_STATUS \o results[j].status

\* C1: whichever lines raise during fetch, collect_all_lines raises nothing,
\* goes on to the remaining lines and ends with one record per configured
\* line in configuration order; the record of a line that raised e has
\* updated = "取得失敗", status = "情報取得エラー" and reason = str(e).
C1_FailureIsolation ==
  /\ Len(results) <= Len(LINES)
  /\ Len(raised) = Len(results)
  /\ pc = "collect" => error = None
  /\ pc \in {"build", "icon", "send", "done", "failed"} => Len(results) = Len(LINES)
  /\ \A k \in 1..Len(results) :
       /\ results[k].name = LINES[k].name
       /\ raised[k] # None =>
            /\ results[k].updated = FETCH_FAILED
            /\ results[k].status = FETCH_ERROR
            /\ results[k].reason = Some(Str(raised[k][1]))

\* a run in which the first and third line raised and the others did not
C1_Witness ==
  /\ pc = "build"
  /\ raised[1] # None /\ raised[2] = None /\ raised[3] # None /\ raised[4] = None
  /\ results[4].status = HEIJOU_UNTEN

\* C2 as stated: the body has one block per distinct (status, reason) key,
\* in the order in which the keys are first met in the input.
C2_PairKeyBlocks == Built => BlocksFollow(PairKeys)

\* C2 amended: the body has one block per distinct (status, reason,
\* delay_minutes) key (no reason counted as "", no delay as 0), in the order
\* in which the keys are first met in the input.
C2_TripleKeyBlocks ==
  Built =>
    /\ BlocksFollow(TripleKeys)
    /\ \A j \in FirstSeen(TripleKeys) :
         groups[Rank(j, TripleKeys)].key = TripleKeys[j]

\* two lines with the same status and reason and different delays
C2_Witness ==
  /\ pc = "icon"
  /\ PairKey(results[1]) = PairKey(results[3])
  /\ TripleKey(results[1]) # TripleKey(results[3])
  /\ Len(lines) = 3

\* C3: the first line of every block lists the names of the group's lines
\* joined by " / " in input order, so splitting that line at " / " gives
\* back the group's names.
C3_HeaderRoundTrip ==
  Built =>
    \A j \in FirstSeen(TripleKeys) :
      Split(BlockLines(lines[Rank(j, TripleKeys)])[1], NAME_SEP)
        = NamesWithKeyOf(j, TripleKeys)

\* C4 as stated: hasAbnormal is true exactly when some record's status is
\* neither "平常運転" nor "情報取得エラー".
C4_AbnormalIffNotEqual ==
  Built =>
    (has_abnormal <=>
       \E k \in 1..Len(results) :
         results[k].status # HEIJOU_UNTEN /\ results[k].status # FETCH_ERROR)

\* C4 amended: hasAbnormal is true exactly when some record's status contains
\* neither "平常運転" nor "情報取得エラー" as a substring.
C4_AbnormalIffNotContained ==
  Built =>
    (has_abnormal <=>
       \E k \in 1..Len(results) :
         /\ ~Contains(HEIJOU_UNTEN, results[k].status)
         /\ ~Contains(FETCH_ERROR, results[k].status))

\* every line in retrieval error, and hasAbnormal false
C4_Witness ==
  /\ pc = "icon"
  /\ \A k \in 1..Len(LINES) : results[k].status = FETCH_ERROR
  /\ ~has_abnormal

\* C5 as stated: hasSevere is true exactly when some record's status is one
\* of "運転見合わせ", "運休", "脱線".
C5_SevereIffMember ==
  Built =>
    (has_severe <=>
       \E k \in 1..Len(results) :
         results[k].status \in {UNTEN_MIAWASE, UNKYUU, DASSEN})

\* C5 amended: hasSevere is true exactly when some record's status contains
\* one of "運転見合わせ", "運休", "脱線" as a substring.
C5_SevereIffContained ==
  Built =>
    (has_severe <=>
       \E k \in 1..Len(results) :
         \/ Contains(UNTEN_MIAWASE, results[k].status)
         \/ Contains(UNKYUU, results[k].status)
         \/ Contains(DASSEN, results[k].status))

\* a status that only contains "運休", and hasSevere true
C5_Witness ==
  /\ pc = "icon"
  /\ has_severe
  /\ \A k \in 1..Len(LINES) :
       results[k].status \in {T_PARTIAL_CANCEL, HEIJOU_UNTEN}

\* the number of records with the given status
CountStatus(s) == Cardinality({k \in 1..Len(results) : results[k].status = s})

\* C6: the icon is OK when hasAbnormal is false, SEVERE (ICON_ERROR) when
\* hasAbnormal and hasSevere are true, WARNING when only hasAbnormal is true;
\* one "運転見合わせ" record among "平常運転" records gives SEVERE, one
\* "情報取得エラー" record among "平常運転" records gives OK.
C6_IconFromFlags ==
  IconChosen =>
    /\ ~has_abnormal => icon = Some(ICON_OK)
    /\ has_abnormal /\ has_severe => icon = Some(ICON_ERROR)
    /\ has_abnormal /\ ~has_severe => icon = Some(ICON_WARN)
    /\ CountStatus(UNTEN_MIAWASE) = 1 /\ CountStatus(HEIJOU_UNTEN) = 3
         => icon = Some(ICON_ERROR)
    /\ CountStatus(FETCH_ERROR) = 1 /\ CountStatus(HEIJOU_UNTEN) = 3
         => icon = Some(ICON_OK)

\* one suspended line among three normal ones, shown with the SEVERE icon
C6_Witness ==
  /\ pc = "send"
  /\ CountStatus(UNTEN_MIAWASE) = 1
  /\ CountStatus(HEIJOU_UNTEN) = 3
  /\ icon = Some(ICON_ERROR)

\* C7: without BARK_KEY the run issues no network request at all, neither a
\* page fetch nor a notification, and ends in the configuration error.
C7_NoNetworkWithoutKey ==
  bark_key = None =>
    /\ net = <<>>
    /\ pc \in {"done", "failed"} => error = Some(MissingKeyError)

\* no fragment ends in "更新" (without "掲載") or holds a date and time, and
\* no fragment is a line name
NoTimeNoTitle ==
  \A k \in 1..Len(strings) :
    /\ ~DtSearch(strings[k])
    /\ ~(EndsWith(strings[k], KOUSHIN) /\ ~Contains(KEISAI, strings[k]))
    /\ \A n \in 1..Len(LINES) : strings[k] # LINES[n].name

\* no fragment of at most 10 characters contains a status word
NoStatusFragment ==
  \A k \in 1..Len(strings) :
    Len(strings[k]) > 10
      \/ \A w \in {HEIJOU_UNTEN, CHIEN, UNTEN_MIAWASE, UNKYUU, DAIYA_MIDARE, SONOTA} :
           ~Contains(w, strings[k])

\* the first 30 fragments joined by spaces
Head30 == Join(<<" ">>, Slice(strings, 0, 30))

\* C8 as stated: without a date/time fragment and without a title match the
\* extraction gives updated = "更新時刻不明", status = "状態不明", no reason.
C8_UnknownWithoutTime ==
  fpc = "done" /\ NoTimeNoTitle =>
    /\ page.updated = UPDATED_UNKNOWN
    /\ page.status = STATUS_UNKNOWN
    /\ extracted.reason = None

\* C8 amended: without an update-time fragment and without a fragment of at
\* most 10 characters containing a status word, the extraction gives
\* updated = "更新時刻不明" and status = "状態不明"; the reason is absent
\* exactly when the first 30 fragments joined by spaces contain none of
\* 事故, 遅延, 見合わせ, 運休, 故障, 脱線, 影響 or contain
\* "事故・遅延に関する情報はありません".
C8_UnknownWithoutTimeAndStatus ==
  fpc = "done" /\ NoTimeNoTitle /\ NoStatusFragment =>
    /\ page.updated = UPDATED_UNKNOWN
    /\ page.status = STATUS_UNKNOWN
    /\ (extracted.reason = None) <=>
         (\/ Contains(NO_INFO_PHRASE, Head30)
          \/ \A w \in {JIKO, CHIEN, MIAWASE, UNKYUU, KOSHOU, DASSEN, EIKYOU} :
               ~Contains(w, Head30))

\* a page of two long fragments, one of them an incident text: unknown time,
\* unknown status, and a reason
C8_Witness ==
  /\ fpc = "done"
  /\ strings = <<T_DELAY_MSG, T_ACCIDENT>>
  /\ page.status = STATUS_UNKNOWN
  /\ extracted.reason # None

\* C9 as stated: every record's status is a status word, "状態不明" or
\* "情報取得エラー".
C9_StatusInVocabulary ==
  \A k \in 1..Len(results) :
    results[k].status \in
      {HEIJOU_UNTEN, CHIEN, UNTEN_MIAWASE, UNKYUU, DAIYA_MIDARE, SONOTA,
       STATUS_UNKNOWN, FETCH_ERROR}

\* C9 amended: every record's status is "状態不明", "情報取得エラー", or a
\* page fragment of at most 10 characters that contains a status word.
C9_StatusContainsVocabulary ==
  \A k \in 1..Len(results) :
    \/ results[k].status \in {STATUS_UNKNOWN, FETCH_ERROR}
    \/ /\ Len(results[k].status) <= 10
       /\ \E w \in {HEIJOU_UNTEN, CHIEN, UNTEN_MIAWASE, UNKYUU, DAIYA_MIDARE, SONOTA} :
            Contains(w, results[k].status)

\* a record whose status only contains a status word
C9_Witness ==
  /\ Len(results) = Len(LINES)
  /\ results[2].status = T_NEAR_NORMAL
  /\ results[3].status = STATUS_UNKNOWN

\* C10: when a status was found, the detail text starts at the fragment that
\* follows the occurrence chosen as the status.
C10_DetailAfterChosen ==
  fpc # "start" /\ page.chosen_at # None =>
    /\ page.detail_start = page.chosen_at[1] + 1
    /\ page.detail_text
         = Join(<<" ">>, Slice(strings, page.chosen_at[1] + 1, page.chosen_at[1] + 31))

====
